---- MODULE Spec2Model ----
(***************************************************************************)
(* Segment reconciliation of the multi-speaker diarization pipeline:       *)
(*   src/src/diarization.py  resolve_overlaps,                             *)
(*                           format_diarization_for_whisperx               *)
(*   src/src/pipeline.py     merge_segments, validate_segments,            *)
(*                           run_pipeline                                  *)
(*   src/src/transcribe.py   assign_speakers_manually,                     *)
(*                           validate_and_fix_diarization,                 *)
(*                           transcribe_with_whisperx                      *)
(*                                                                         *)
(* Time is counted in ticks of 0.05 s, so the 0.1 s thresholds of the code *)
(* are 2 ticks.  A text is a sequence of one-character strings, so that    *)
(* str.strip() and ' '.join() are computed and not assumed.                *)
(***************************************************************************)
EXTENDS Integers, Sequences, FiniteSets, TLC

VARIABLES
    pc,                 \* position of the call under study
    segments,           \* merge_segments: the argument list (sorted in place)
    merged_segments,    \* merge_segments: outcome of the first call
    remerged_segments,  \* merge_segments: outcome of the call on its own result
    transcription_segments, \* assign_speakers_manually: first argument
    diarization_segments,   \* assign_speakers_manually: second argument
    assigned_segments,      \* assign_speakers_manually: the returned list
    diarization,            \* resolve_overlaps: the pyannote Annotation
    overlap_regions,        \* resolve_overlaps: the list of (start, end)
    resolved_segments,      \* resolve_overlaps: the returned list
    formatted_segments,     \* format_diarization_for_whisperx: the returned list
    external,               \* transcribe_with_whisperx: what assign_word_speakers did
    fallback_calls,         \* transcribe_with_whisperx: calls of the fallback so far
    final_result,           \* transcribe_with_whisperx: the returned dict's segments
    raw_records,            \* validate_segments, validate_and_fix_diarization: the argument
    valid_segments,         \* validate_segments: outcome of the call
    diarize_df,             \* validate_and_fix_diarization: outcome of the call
    stages_invoked,         \* run_pipeline: the stages invoked so far, in order
    stage_output,           \* run_pipeline: what the last stage returned
    output_files,           \* run_pipeline: the output files written so far
    processed_audio,        \* run_pipeline: whether the preprocessed audio file exists
    final_segments,         \* diarize_audio: the path taken and the value returned
    unpacked,               \* the callers of diarize_audio: outcome of their unpacking
    speaker_names,          \* create_speaker_mapping: the names the user gave
    unique_speakers,        \* create_speaker_mapping: the speaker labels
    speaker_mapping,        \* create_speaker_mapping: the returned mapping
    transcript_segments,    \* post_process_transcript: the segments
    final_transcript        \* post_process_transcript: the returned lines

mergeVars == <<segments, merged_segments, remerged_segments>>
assignVars == <<transcription_segments, diarization_segments, assigned_segments>>

resolveVars == <<diarization, overlap_regions, resolved_segments, formatted_segments>>

transcribeVars == <<external, fallback_calls, final_result>>

validateVars == <<raw_records, valid_segments, diarize_df>>

pipelineVars == <<stages_invoked, stage_output, output_files, processed_audio>>

diarizeVars == <<final_segments, unpacked>>

utilsVars ==
    <<speaker_names, unique_speakers, speaker_mapping, transcript_segments, final_transcript>>

vars ==
    <<pc, mergeVars, assignVars, resolveVars, transcribeVars, validateVars, pipelineVars,
      diarizeVars, utilsVars>>

\* What a specification of one function leaves idle
MergeIdle ==
    /\ segments = <<>>
    /\ merged_segments = [raised |-> FALSE, out |-> <<>>]
    /\ remerged_segments = [raised |-> FALSE, out |-> <<>>]
AssignIdle ==
    /\ transcription_segments = <<>>
    /\ diarization_segments = <<>>
    /\ assigned_segments = <<>>
ResolveIdle ==
    /\ diarization = {}
    /\ overlap_regions = <<>>
    /\ resolved_segments = <<>>
    /\ formatted_segments = <<>>
TranscribeIdle ==
    /\ external = [outcome |-> "not called", labels |-> <<>>]
    /\ fallback_calls = 0
    /\ final_result = <<>>
ValidateIdle ==
    /\ raw_records = <<>>
    /\ valid_segments = [raised |-> FALSE, out |-> <<>>]
    /\ diarize_df = [raised |-> FALSE, out |-> <<>>]
PipelineIdle ==
    /\ stages_invoked = <<>>
    /\ stage_output = <<>>
    /\ output_files = {}
    /\ processed_audio = "absent"
DiarizeIdle ==
    /\ final_segments = [path |-> "not called", value |-> <<>>]
    /\ unpacked = [outcome |-> "not called", targets |-> <<>>]
UtilsIdle ==
    /\ speaker_names = << >>
    /\ unique_speakers = <<>>
    /\ speaker_mapping = << >>
    /\ transcript_segments = <<>>
    /\ final_transcript = <<>>

----------------------------------------------------------------------------
(* Bounds of the model *)

MergeMaxTime == 3     \* merge_segments: times are 0..MergeMaxTime
MaxSegs == 4          \* merge_segments: at most MaxSegs input segments
AssignMaxTime == 4    \* assign_speakers_manually: times are 0..AssignMaxTime
MaxRecords == 3       \* assign_speakers_manually: its two lists hold at most
                      \* MaxRecords records together
ResolveMaxTime == 3   \* resolve_overlaps: times are 0..ResolveMaxTime
MaxResolveRecords == 4 \* resolve_overlaps: turns and overlap regions together
TranscribeMaxTime == 1 \* transcribe_with_whisperx: times are 0..TranscribeMaxTime
MaxTranscribeRecords == 4 \* transcribe_with_whisperx: turns and aligned segments
                          \* together

\* 0.1 s, the threshold below which a gap or a duration counts as nothing
MinDuration == 2

Max(a, b) == IF a >= b THEN a ELSE b
Min(a, b) == IF a <= b THEN a ELSE b

RECURSIVE SeqsUpTo(_, _)
SeqsUpTo(S, n) ==
    IF n = 0 THEN {<<>>}
    ELSE LET shorter == SeqsUpTo(S, n - 1)
         IN  shorter \cup {Append(q, x) : q \in {r \in shorter : Len(r) = n - 1}, x \in S}

----------------------------------------------------------------------------
(* Text: str.strip() and ' '.join() *)

SPACE == " "

RECURSIVE LStrip(_)
LStrip(t) == IF t # <<>> /\ Head(t) = SPACE THEN LStrip(Tail(t)) ELSE t

RECURSIVE RStrip(_)
RStrip(t) ==
    IF t # <<>> /\ t[Len(t)] = SPACE THEN RStrip(SubSeq(t, 1, Len(t) - 1)) ELSE t

Strip(t) == RStrip(LStrip(t))

RECURSIVE Join(_)
Join(texts) ==
    IF texts = <<>> THEN <<>>
    ELSE IF Len(texts) = 1 THEN Head(texts)
    ELSE Head(texts) \o <<SPACE>> \o Join(Tail(texts))

----------------------------------------------------------------------------
(* list.sort(key=lambda x: x['start']): a stable sort by start *)

RECURSIVE InsertByStart(_, _)
InsertByStart(sorted, x) ==
    IF sorted = <<>> THEN <<x>>
    ELSE IF x.start < Head(sorted).start THEN <<x>> \o sorted
    ELSE <<Head(sorted)>> \o InsertByStart(Tail(sorted), x)

RECURSIVE SortByStartAcc(_, _)
SortByStartAcc(rest, acc) ==
    IF rest = <<>> THEN acc
    ELSE SortByStartAcc(Tail(rest), InsertByStart(acc, Head(rest)))

SortByStart(list) == SortByStartAcc(list, <<>>)

----------------------------------------------------------------------------
(* Inputs of merge_segments: speaker-assigned transcribed segments *)

Speakers == {"A", "B"}
UNKNOWN == "UNKNOWN"
MISSING == "<missing>"     \* the dict has no such key

\* What a segment says: nothing but white space, or its speaker's words; the
\* text of B comes with leading white space, as the recogniser gives it.
Blank == <<SPACE>>
Spoken(speaker) == IF speaker = "A" THEN <<"a">> ELSE <<SPACE, "b">>

\* The aligner gives a segment the words of its text.
WordsOf(text, speaker) ==
    IF Strip(text) = <<>> THEN <<>>
    ELSE <<[word |-> Strip(text), speaker |-> speaker]>>

Segment(sp, s, e, t) ==
    [speaker |-> sp, start |-> s, end |-> e, text |-> t, words |-> WordsOf(t, sp)]

\* TimeInterval: start < end
Intervals(horizon) == {iv \in (0..horizon) \X (0..horizon) : iv[1] < iv[2]}

InputSegments ==
    UNION {{Segment(x[1], x[2][1], x[2][2], t) : t \in {Blank, Spoken(x[1])}} :
        x \in Speakers \X Intervals(MergeMaxTime)}

----------------------------------------------------------------------------
(* intervaltree: Interval(begin, end, data), IntervalTree *)

NoData == 0     \* data None; the data of a real interval is the index i >= 1

\* seg.get('speaker', 'UNKNOWN')
SpeakerKey(seg) == IF seg.speaker = MISSING THEN UNKNOWN ELSE seg.speaker

\* speaker_trees.keys(), in insertion order: each speaker at its first segment
RECURSIVE SpeakerOrderAcc(_, _)
SpeakerOrderAcc(rest, acc) ==
    IF rest = <<>> THEN acc
    ELSE LET sp == SpeakerKey(Head(rest))
         IN  IF \E k \in 1..Len(acc) : acc[k] = sp
             THEN SpeakerOrderAcc(Tail(rest), acc)
             ELSE SpeakerOrderAcc(Tail(rest), Append(acc, sp))

SpeakerOrder(segs) == SpeakerOrderAcc(segs, <<>>)

\* speaker_trees[speaker] after the loop of adds
\* (SpeakerTreeShared: one tree of all segments for every speaker)
SpeakerTreeShared(segs, speaker) ==
    {[begin |-> segs[i].start, end |-> segs[i].end, data |-> i] : i \in 1..Len(segs)}
SpeakerTree(segs, speaker) ==
    {[begin |-> segs[i].start, end |-> segs[i].end, data |-> i] :
        i \in {j \in 1..Len(segs) : SpeakerKey(segs[j]) = speaker}}

\* IntervalTree.add raises ValueError for a null interval
AddRaises(segs) == \E i \in 1..Len(segs) : segs[i].start >= segs[i].end

\* Interval.__lt__: by begin, then end, then data
IntervalLess(a, b) ==
    \/ a.begin < b.begin
    \/ a.begin = b.begin /\ a.end < b.end
    \/ a.begin = b.begin /\ a.end = b.end /\ a.data < b.data

RECURSIVE SortedIntervals(_)
SortedIntervals(tree) ==
    IF tree = {} THEN <<>>
    ELSE LET lowest == CHOOSE x \in tree : \A y \in tree \ {x} : IntervalLess(x, y)
         IN  <<lowest>> \o SortedIntervals(tree \ {lowest})

\* The merge test of IntervalTree.merge_overlaps(strict=True)
ShouldMerge(lower, higher) == higher.begin < lower.end

\* The data of a merged interval: with no data_reducer it is annihilated
MergedData(lower, higher) == NoData

RECURSIVE MergeSeries(_, _)
MergeSeries(sorted, merged) ==
    IF sorted = <<>> THEN merged
    ELSE LET higher == Head(sorted)
             n == Len(merged)
         IN  IF n > 0 /\ ShouldMerge(merged[n], higher)
             THEN MergeSeries(Tail(sorted),
                      [merged EXCEPT ![n] = [begin |-> merged[n].begin,
                                             end |-> Max(merged[n].end, higher.end),
                                             data |-> MergedData(merged[n], higher)]])
             ELSE MergeSeries(Tail(sorted), Append(merged, higher))

\* IntervalTree.merge_overlaps()
MergeOverlaps(tree) ==
    LET merged == MergeSeries(SortedIntervals(tree), <<>>)
    IN  {merged[k] : k \in 1..Len(merged)}

\* tree[begin:end]: the intervals of the tree that overlap [begin, end)
TreeOverlap(tree, begin, end) == {iv \in tree : iv.begin < end /\ iv.end > begin}

----------------------------------------------------------------------------
(* merge_segments *)

\* iv.data[1] raises TypeError when iv.data is None
DataRaises(tree, interval) ==
    \E iv \in TreeOverlap(tree, interval.begin, interval.end) : iv.data = NoData

\* original_segments, sorted by start
OriginalSegments(segs, tree, interval) ==
    LET found == SortedIntervals(TreeOverlap(tree, interval.begin, interval.end))
    IN  SortByStart([k \in 1..Len(found) |-> segs[found[k].data]])

RECURSIVE StrippedTexts(_)
StrippedTexts(originals) ==
    IF originals = <<>> THEN <<>>
    ELSE (IF Strip(Head(originals).text) # <<>>
          THEN <<Strip(Head(originals).text)>> ELSE <<>>)
         \o StrippedTexts(Tail(originals))

RECURSIVE AllWords(_)
AllWords(originals) ==
    IF originals = <<>> THEN <<>>
    ELSE Head(originals).words \o AllWords(Tail(originals))

MergedSegment(segs, speaker, tree, interval) ==
    LET originals == OriginalSegments(segs, tree, interval)
    IN  [speaker |-> speaker,
         start   |-> interval.begin,
         end     |-> interval.end,
         text    |-> Strip(Join(StrippedTexts(originals))),
         words   |-> AllWords(originals)]

\* The merged segments of one speaker, those with empty text left out
SpeakerMerged(segs, speaker) ==
    LET tree == MergeOverlaps(SpeakerTree(segs, speaker))
        ivs  == SortedIntervals(tree)
        all  == [k \in 1..Len(ivs) |-> MergedSegment(segs, speaker, tree, ivs[k])]
    IN  SelectSeq(all, LAMBDA m : m.text # <<>>)

SpeakerRaises(segs, speaker) ==
    LET tree == MergeOverlaps(SpeakerTree(segs, speaker))
    IN  \E interval \in tree : DataRaises(tree, interval)

RECURSIVE Reconstruct(_, _)
Reconstruct(segs, order) ==
    IF order = <<>> THEN <<>>
    ELSE SpeakerMerged(segs, Head(order)) \o Reconstruct(segs, Tail(order))

Returned(list) == [raised |-> FALSE, out |-> list]
Raised == [raised |-> TRUE, out |-> <<>>]
NotCalled == [raised |-> FALSE, out |-> <<>>]

\* merge_segments(segments): what it returns, or that it raised
merge_segments(list) ==
    IF list = <<>> THEN Returned(<<>>)
    ELSE LET sorted == SortByStart(list)
             order  == SpeakerOrder(sorted)
         IN  IF AddRaises(sorted) THEN Raised
             ELSE IF \E k \in 1..Len(order) : SpeakerRaises(sorted, order[k]) THEN Raised
             ELSE Returned(SortByStart(Reconstruct(sorted, order)))

----------------------------------------------------------------------------
(* Specification of merge_segments: a call, then a call on its result *)

InitMerge ==
    /\ pc = "merge"
    /\ segments \in SeqsUpTo(InputSegments, MaxSegs)
    /\ merged_segments = NotCalled
    /\ remerged_segments = NotCalled
    /\ AssignIdle
    /\ ResolveIdle
    /\ TranscribeIdle
    /\ ValidateIdle
    /\ PipelineIdle
    /\ DiarizeIdle
    /\ UtilsIdle

\* merged = merge_segments(segments); segments.sort() has sorted the argument
MergeSegments ==
    /\ pc = "merge"
    /\ merged_segments' = merge_segments(segments)
    /\ segments' = IF segments = <<>> THEN segments ELSE SortByStart(segments)
    /\ pc' = "merged"
    /\ UNCHANGED <<diarizeVars, utilsVars, validateVars, pipelineVars, remerged_segments, assignVars, resolveVars, transcribeVars>>

\* merge_segments(merged): only when the first call returned
MergeAgain ==
    /\ pc = "merged"
    /\ ~merged_segments.raised
    /\ remerged_segments' = merge_segments(merged_segments.out)
    /\ pc' = "remerged"
    /\ UNCHANGED <<diarizeVars, utilsVars, validateVars, pipelineVars, segments, merged_segments, assignVars, resolveVars, transcribeVars>>

NextMerge == MergeSegments \/ MergeAgain

SpecMerge == InitMerge /\ [][NextMerge]_vars

----------------------------------------------------------------------------
(* Claims about merge_segments *)

SameSpeakerPairs(list) ==
    {p \in (1..Len(list)) \X (1..Len(list)) :
        p[1] # p[2] /\ list[p[1]].speaker = list[p[2]].speaker}

\* C2: in the list merge_segments returns, two segments of one speaker never
\* overlap and lie at least 0.1 s apart.
C2_MergedSameSpeakerApart ==
    (pc = "merged" /\ ~merged_segments.raised) =>
        \A p \in SameSpeakerPairs(merged_segments.out) :
            LET a == merged_segments.out[p[1]]
                b == merged_segments.out[p[2]]
            IN  a.end + MinDuration <= b.start \/ b.end + MinDuration <= a.start

\* The same-speaker segments that collapse into one interval, as index lists
\* in order of start: a chain of segments each overlapping the span so far.
RECURSIVE OverlapGroups(_, _, _)
OverlapGroups(sorted, groups, ends) ==
    IF sorted = <<>> THEN groups
    ELSE LET higher == Head(sorted)
             n == Len(groups)
         IN  IF n > 0 /\ higher.begin < ends[n]
             THEN OverlapGroups(Tail(sorted),
                                [groups EXCEPT ![n] = Append(@, higher.data)],
                                [ends EXCEPT ![n] = Max(@, higher.end)])
             ELSE OverlapGroups(Tail(sorted),
                                Append(groups, <<higher.data>>),
                                Append(ends, higher.end))

CollapsedGroups(list, speaker) ==
    LET groups == OverlapGroups(SortedIntervals(SpeakerTree(list, speaker)), <<>>, <<>>)
    IN  {groups[k] : k \in {j \in 1..Len(groups) : Len(groups[j]) >= 2}}

RECURSIVE GroupEnd(_, _)
GroupEnd(list, group) ==
    IF group = <<>> THEN 0 ELSE Max(list[Head(group)].end, GroupEnd(list, Tail(group)))

UnionSegment(list, speaker, group) ==
    LET members == [k \in 1..Len(group) |-> list[group[k]]]
    IN  [speaker |-> speaker,
         start   |-> list[group[1]].start,
         end     |-> GroupEnd(list, group),
         text    |-> Join(StrippedTexts(members)),
         words   |-> AllWords(members)]

\* C3: same-speaker segments with overlapping intervals come out as one
\* segment over the union of their intervals, with their non-empty texts
\* joined by single spaces and their words concatenated, in order of start.
C3_OverlappingCollapseToUnion ==
    pc = "merged" =>
        \A speaker \in Speakers : \A group \in CollapsedGroups(segments, speaker) :
            LET expected == UnionSegment(segments, speaker, group)
            IN  /\ ~merged_segments.raised
                /\ expected.text # <<>> =>
                       \E k \in 1..Len(merged_segments.out) :
                           merged_segments.out[k] = expected

\* C4: merge_segments returns a list and never raises, whatever speaker-assigned
\* segments with start < end it is given.
C4_MergeNeverRaises ==
    pc = "merged" => ~merged_segments.raised

\* C5: merge_segments is idempotent: applied to its own result it returns that
\* result, as an ordered list of records.
C5_MergeIdempotent ==
    pc = "remerged" =>
        /\ ~remerged_segments.raised
        /\ remerged_segments.out = merged_segments.out

----------------------------------------------------------------------------
(* assign_speakers_manually *)

NONE == "<None>"           \* Python's None

\* A word of a transcribed segment, with the speaker the aligner left on it
Word(speaker) == [word |-> <<"w">>, speaker |-> speaker]

\* A diarization turn {'speaker', 'start', 'end'}
Turn(sp, s, e) == [speaker |-> sp, start |-> s, end |-> e]

TurnUniverse ==
    {Turn(x[1], x[2][1], x[2][2]) : x \in Speakers \X Intervals(AssignMaxTime)}

\* A transcribed segment before assignment: no 'speaker' key; of its words one
\* has no 'speaker' key, one has speaker None and one has a speaker already
TranscribedUniverse ==
    {[speaker |-> MISSING, start |-> iv[1], end |-> iv[2], text |-> <<"a">>,
      words |-> <<Word(MISSING), Word(NONE), Word("B")>>] :
        iv \in Intervals(AssignMaxTime)}

\* overlap_duration = max(0, min(trans_end, end) - max(trans_start, start))
OverlapDuration(trans_start, trans_end, spk_seg) ==
    Max(0, Min(trans_end, spk_seg.end) - Max(trans_start, spk_seg.start))

\* spk_seg['start'] <= trans_mid <= spk_seg['end'], trans_mid = (start + end) / 2
MidpointWithin(trans_start, trans_end, spk_seg) ==
    /\ 2 * spk_seg.start <= trans_start + trans_end
    /\ trans_start + trans_end <= 2 * spk_seg.end

\* if overlap_duration > best_overlap (BetterOrEqual: with >= instead)
BetterOrEqual(overlap_duration, best_overlap) == overlap_duration >= best_overlap
Better(overlap_duration, best_overlap) == overlap_duration > best_overlap

\* The loop over speaker_map, from (best_speaker, best_overlap) on; it ends at
\* a turn that holds the midpoint and overlaps (break), or with the list
RECURSIVE BestSpeakerFrom(_, _, _, _, _)
BestSpeakerFrom(speaker_map, trans_start, trans_end, best_speaker, best_overlap) ==
    IF speaker_map = <<>> THEN best_speaker
    ELSE LET spk_seg == Head(speaker_map)
             overlap_duration == OverlapDuration(trans_start, trans_end, spk_seg)
             better == Better(overlap_duration, best_overlap)
         IN  IF MidpointWithin(trans_start, trans_end, spk_seg) /\ overlap_duration > 0
             THEN spk_seg.speaker
             ELSE BestSpeakerFrom(Tail(speaker_map), trans_start, trans_end,
                      IF better THEN spk_seg.speaker ELSE best_speaker,
                      IF better THEN overlap_duration ELSE best_overlap)

\* speaker_map: the turns, sorted by start (SpeakerMapUnsorted: without the sort)
SpeakerMapUnsorted(diar) == diar
SpeakerMap(diar) == SortByStart(diar)

\* best_speaker for one transcribed segment
BestSpeaker(trans_seg, diar) ==
    BestSpeakerFrom(SpeakerMap(diar), trans_seg.start, trans_seg.end, UNKNOWN, 0)

\* word['speaker'] = best_speaker where the word has no speaker
\* (FillWordsSkipped: without the loop over the words)
FillWordsSkipped(words, best_speaker) == words
FillWords(words, best_speaker) ==
    [k \in 1..Len(words) |->
        IF words[k].speaker \in {MISSING, NONE}
        THEN [words[k] EXCEPT !.speaker = best_speaker]
        ELSE words[k]]

\* new_segment: a shallow copy with the speaker set; the word dicts are shared
\* (NewSegmentEmptyText: a new dict in which the text is not carried over)
NewSegmentEmptyText(trans_seg, diar) ==
    [trans_seg EXCEPT !.speaker = BestSpeaker(trans_seg, diar),
                      !.text = <<>>,
                      !.words = FillWords(trans_seg.words, BestSpeaker(trans_seg, diar))]
NewSegment(trans_seg, diar) ==
    [trans_seg EXCEPT !.speaker = BestSpeaker(trans_seg, diar),
                      !.words = FillWords(trans_seg.words, BestSpeaker(trans_seg, diar))]

assign_speakers_manually(trans, diar) ==
    [i \in 1..Len(trans) |-> NewSegment(trans[i], diar)]

----------------------------------------------------------------------------
(* Specification of assign_speakers_manually: the caller builds the two lists, *)
(* then calls                                                                  *)

InitAssign ==
    /\ pc = "input"
    /\ transcription_segments = <<>>
    /\ diarization_segments = <<>>
    /\ assigned_segments = <<>>
    /\ MergeIdle
    /\ ResolveIdle
    /\ TranscribeIdle
    /\ ValidateIdle
    /\ PipelineIdle
    /\ DiarizeIdle
    /\ UtilsIdle

AddTurn ==
    /\ pc = "input"
    /\ Len(diarization_segments) + Len(transcription_segments) < MaxRecords
    /\ transcription_segments = <<>>
    /\ \E turn \in TurnUniverse :
           diarization_segments' = Append(diarization_segments, turn)
    /\ UNCHANGED <<diarizeVars, utilsVars, validateVars, pipelineVars, pc, transcription_segments, assigned_segments, mergeVars, resolveVars, transcribeVars>>

AddTranscribed ==
    /\ pc = "input"
    /\ Len(diarization_segments) + Len(transcription_segments) < MaxRecords
    /\ \E seg \in TranscribedUniverse :
           transcription_segments' = Append(transcription_segments, seg)
    /\ UNCHANGED <<diarizeVars, utilsVars, validateVars, pipelineVars, pc, diarization_segments, assigned_segments, mergeVars, resolveVars, transcribeVars>>

\* assigned = assign_speakers_manually(transcription_segments, diarization_segments);
\* the words of the argument are the words of the result, so they change too
AssignSpeakersManually ==
    /\ pc = "input"
    /\ assigned_segments' =
           assign_speakers_manually(transcription_segments, diarization_segments)
    /\ transcription_segments' =
           [i \in 1..Len(transcription_segments) |->
               [transcription_segments[i] EXCEPT
                   !.words = assigned_segments'[i].words]]
    /\ pc' = "assigned"
    /\ UNCHANGED <<diarizeVars, utilsVars, validateVars, pipelineVars, diarization_segments, mergeVars, resolveVars, transcribeVars>>

NextAssign == AddTurn \/ AddTranscribed \/ AssignSpeakersManually

SpecAssign == InitAssign /\ [][NextAssign]_vars

----------------------------------------------------------------------------
(* Claims about assign_speakers_manually *)

TurnIndices == 1..Len(diarization_segments)

\* The overlap of transcribed segment seg with the k-th turn as given
OverlapWith(seg, k) == OverlapDuration(seg.start, seg.end, diarization_segments[k])

MaxOverlap(seg) ==
    IF TurnIndices = {} THEN 0
    ELSE CHOOSE m \in {OverlapWith(seg, k) : k \in TurnIndices} :
             \A k \in TurnIndices : OverlapWith(seg, k) <= m

MaxOverlapTurns(seg) == {k \in TurnIndices : OverlapWith(seg, k) = MaxOverlap(seg)}

\* spk_seg.start < trans_mid < spk_seg.end
MidpointStrictlyWithin(trans_start, trans_end, spk_seg) ==
    /\ 2 * spk_seg.start < trans_start + trans_end
    /\ trans_start + trans_end < 2 * spk_seg.end

\* Turns that overlap seg and hold its midpoint strictly inside
StrictMidpointTurns(seg) ==
    {k \in TurnIndices :
        /\ OverlapWith(seg, k) > 0
        /\ MidpointStrictlyWithin(seg.start, seg.end, diarization_segments[k])}

\* Turns that overlap seg and hold its midpoint, boundaries included
MidpointTurns(seg) ==
    {k \in TurnIndices :
        /\ OverlapWith(seg, k) > 0
        /\ MidpointWithin(seg.start, seg.end, diarization_segments[k])}

SpeakersOf(turns) == {diarization_segments[k].speaker : k \in turns}

\* C6: a segment gets the label of a turn that overlaps it and holds its
\* midpoint strictly inside, if there is one, and otherwise the label of a turn
\* of maximum overlap; a turn that only touches the midpoint decides nothing.
C6_StrictMidpointElseMaxOverlap ==
    pc = "assigned" =>
        \A i \in 1..Len(assigned_segments) :
            LET seg == assigned_segments[i]
            IN  IF StrictMidpointTurns(seg) # {}
                THEN seg.speaker \in SpeakersOf(StrictMidpointTurns(seg))
                ELSE MaxOverlap(seg) > 0 =>
                         seg.speaker \in SpeakersOf(MaxOverlapTurns(seg))

\* Several turns share the maximum overlap with seg and none holds its midpoint
TiedWithoutMidpoint(seg) ==
    /\ MaxOverlap(seg) > 0
    /\ Cardinality(MaxOverlapTurns(seg)) >= 2
    /\ MidpointTurns(seg) = {}

FirstInInput(turns) == CHOOSE k \in turns : \A j \in turns : k <= j

\* Earliest start; among equal starts the first in the input
EarliestStart(turns) ==
    CHOOSE k \in turns : \A j \in turns \ {k} :
        \/ diarization_segments[k].start < diarization_segments[j].start
        \/ /\ diarization_segments[k].start = diarization_segments[j].start
           /\ k < j

C8_UnknownIffNoOverlap ==
    pc = "assigned" =>
        \A i \in 1..Len(assigned_segments) :
            LET seg == assigned_segments[i]
            IN  IF MaxOverlap(seg) = 0
                THEN seg.speaker = UNKNOWN
                ELSE \E k \in TurnIndices :
                         /\ OverlapWith(seg, k) > 0
                         /\ seg.speaker = diarization_segments[k].speaker

\* One call that leaves a segment UNKNOWN beside a turn it does not overlap
\* and labels another segment from that turn
C8_Witness ==
    /\ pc = "assigned"
    /\ diarization_segments # <<>>
    /\ \E i, j \in 1..Len(assigned_segments) :
           /\ MaxOverlap(assigned_segments[i]) = 0
           /\ assigned_segments[i].speaker = UNKNOWN
           /\ MaxOverlap(assigned_segments[j]) > 0
           /\ assigned_segments[j].speaker \in Speakers

----------------------------------------------------------------------------
(* pyannote.core: Segment, Timeline, Annotation, with segments as <<start, end>> *)

\* sorted(labels, key=str)
LabelRank(label) == IF label = "A" THEN 1 ELSE IF label = "B" THEN 2 ELSE 3

\* Segment.intersects: a common part of positive length
Intersects(a, b) == a[1] < b[2] /\ b[1] < a[2]

SegmentLess(a, b) == a[1] < b[1] \/ (a[1] = b[1] /\ a[2] < b[2])

\* A Timeline in its order: by start, then end
RECURSIVE SortedSegments(_)
SortedSegments(timeline) ==
    IF timeline = {} THEN <<>>
    ELSE LET first == CHOOSE x \in timeline : \A y \in timeline \ {x} : SegmentLess(x, y)
         IN  <<first>> \o SortedSegments(timeline \ {first})

\* Timeline(segments): empty segments are left out
Timeline(segs) == {x \in segs : x[1] < x[2]}

\* Timeline.support(): segments that overlap or touch are joined
RECURSIVE SupportFrom(_, _)
SupportFrom(sorted, acc) ==
    IF sorted = <<>> THEN acc
    ELSE LET seg == Head(sorted)
             n == Len(acc)
         IN  IF n > 0 /\ seg[1] <= acc[n][2]
             THEN SupportFrom(Tail(sorted),
                              [acc EXCEPT ![n] = <<acc[n][1], Max(acc[n][2], seg[2])>>])
             ELSE SupportFrom(Tail(sorted), Append(acc, seg))

Support(timeline) == SupportFrom(SortedSegments(timeline), <<>>)

\* Timeline.crop(support, mode='intersection') for a Segment support
CropTimeline(timeline, support) ==
    {<<Max(x[1], support[1]), Min(x[2], support[2])>> :
        x \in {y \in timeline : Intersects(y, support)}}

\* Timeline.gaps_iter(support) for a Segment support: what lies between the
\* joined segments of the timeline inside support
RECURSIVE GapsBetween(_, _, _)
GapsBetween(covered, end, support) ==
    IF covered = <<>>
    THEN IF end < support[2] THEN <<<<end, support[2]>>>> ELSE <<>>
    ELSE (IF end < Head(covered)[1] THEN <<<<end, Head(covered)[1]>>>> ELSE <<>>)
         \o GapsBetween(Tail(covered), Head(covered)[2], support)

GapsInSegment(timeline, support) ==
    GapsBetween(Support(CropTimeline(timeline, support)), support[1], support)

\* Timeline.gaps(support) for a Timeline support: the gaps of this timeline
\* inside each joined segment of the support
RECURSIVE GapsInEach(_, _)
GapsInEach(timeline, supports) ==
    IF supports = <<>> THEN <<>>
    ELSE GapsInSegment(timeline, Head(supports)) \o GapsInEach(timeline, Tail(supports))

Gaps(timeline, support) == GapsInEach(timeline, Support(support))

\* Annotation.get_timeline()
GetTimeline(annotation) == {<<t.start, t.end>> : t \in annotation}

\* list(annotation.crop(segment).labels()): the labels of the tracks that
\* intersect the segment, sorted
RECURSIVE SortedLabels(_)
SortedLabels(labels) ==
    IF labels = {} THEN <<>>
    ELSE LET first == CHOOSE x \in labels :
                          \A y \in labels \ {x} : LabelRank(x) < LabelRank(y)
         IN  <<first>> \o SortedLabels(labels \ {first})

CropLabels(annotation, segment) ==
    IF segment[1] >= segment[2] THEN <<>>
    ELSE SortedLabels({t.speaker : t \in {u \in annotation :
                                              Intersects(<<u.start, u.end>>, segment)}})

----------------------------------------------------------------------------
(* resolve_overlaps *)

RegionSet(regions) == {regions[k] : k \in 1..Len(regions)}

\* non_overlap_timeline: original_timeline.gaps(overlap_timeline) is the gaps
\* of the turns inside the overlap regions
NonOverlapTimeline(annotation, regions) ==
    IF regions # <<>>
    THEN Gaps(GetTimeline(annotation), Timeline(RegionSet(regions)))
    ELSE SortedSegments(GetTimeline(annotation))

Resolved(speaker, start, end, is_overlap, overlap_with) ==
    [speaker |-> speaker, start |-> start, end |-> end,
     is_overlap |-> is_overlap, overlap_with |-> overlap_with]

\* The first loop: one segment, for the first speaker, per non-overlap segment
RECURSIVE NonOverlapSegments(_, _)
NonOverlapSegments(annotation, timeline) ==
    IF timeline = <<>> THEN <<>>
    ELSE LET segment == Head(timeline)
             speakers == CropLabels(annotation, segment)
         IN  (IF speakers # <<>>
              THEN <<Resolved(speakers[1], segment[1], segment[2], FALSE, <<>>)>>
              ELSE <<>>)
             \o NonOverlapSegments(annotation, Tail(timeline))

\* [str(s) for s in speakers_in_overlap if s != speaker]
\* (OthersKept: without the condition)
OthersKept(speakers, speaker) == speakers
Others(speakers, speaker) == SelectSeq(speakers, LAMBDA sp : sp # speaker)

\* The second loop: per region with more than one speaker, one segment each
\* (OverlapSegmentsAnyCount: per region with any speaker)
RECURSIVE OverlapSegmentsAnyCount(_, _)
OverlapSegmentsAnyCount(annotation, regions) ==
    IF regions = <<>> THEN <<>>
    ELSE LET region == Head(regions)
             speakers == CropLabels(annotation, region)
         IN  (IF Len(speakers) > 0
              THEN [k \in 1..Len(speakers) |->
                       Resolved(speakers[k], region[1], region[2], TRUE,
                                Others(speakers, speakers[k]))]
              ELSE <<>>)
             \o OverlapSegmentsAnyCount(annotation, Tail(regions))
RECURSIVE OverlapSegments(_, _)
OverlapSegments(annotation, regions) ==
    IF regions = <<>> THEN <<>>
    ELSE LET region == Head(regions)
             speakers == CropLabels(annotation, region)
         IN  (IF Len(speakers) > 1
              THEN [k \in 1..Len(speakers) |->
                       Resolved(speakers[k], region[1], region[2], TRUE,
                                Others(speakers, speakers[k]))]
              ELSE <<>>)
             \o OverlapSegments(annotation, Tail(regions))

\* seg['end'] - seg['start'] >= 0.1 (LongEnoughAlways: without the filter)
LongEnoughAlways(seg) == TRUE
LongEnough(seg) == seg.end - seg.start >= MinDuration

resolve_overlaps(annotation, regions) ==
    LET emitted == NonOverlapSegments(annotation, NonOverlapTimeline(annotation, regions))
                   \o OverlapSegments(annotation, regions)
    IN  SelectSeq(SortByStart(emitted), LongEnough)

----------------------------------------------------------------------------
(* format_diarization_for_whisperx *)

\* diarization.itertracks(yield_label=True): the tracks by segment, then by
\* track name (the track of a speaker is named after its label)
TrackLess(a, b) ==
    \/ SegmentLess(<<a.start, a.end>>, <<b.start, b.end>>)
    \/ (a.start = b.start /\ a.end = b.end /\ LabelRank(a.speaker) < LabelRank(b.speaker))

RECURSIVE IterTracks(_)
IterTracks(annotation) ==
    IF annotation = {} THEN <<>>
    ELSE LET first == CHOOSE x \in annotation : \A y \in annotation \ {x} : TrackLess(x, y)
         IN  <<first>> \o IterTracks(annotation \ {first})

\* segments: one dict per track, then sorted by start
FormattedTracks(annotation) ==
    LET tracks == IterTracks(annotation)
    IN  SortByStart([k \in 1..Len(tracks) |->
            Resolved(tracks[k].speaker, tracks[k].start, tracks[k].end, FALSE, <<>>)])

\* A segment of the speaker of the last merged segment that starts less than
\* 0.1 s after its end replaces that end by its own
RECURSIVE MergeClose(_, _)
MergeClose(segs, merged) ==
    IF segs = <<>> THEN merged
    ELSE LET segment == Head(segs)
             n == Len(merged)
         IN  IF /\ n > 0
                /\ merged[n].speaker = segment.speaker
                /\ segment.start - merged[n].end < MinDuration
             THEN MergeClose(Tail(segs), [merged EXCEPT ![n].end = segment.end])
             ELSE MergeClose(Tail(segs), Append(merged, segment))

format_diarization_for_whisperx(annotation) ==
    SelectSeq(MergeClose(FormattedTracks(annotation), <<>>), LongEnough)

----------------------------------------------------------------------------
(* Specification of resolve_overlaps: the two models give turns and regions, *)
(* then the call                                                             *)

\* The labels the diarization pipeline gives its tracks
ResolveSpeakers == {"A", "B", "C"}

\* The pipeline numbers its speakers as it finds them: a label is in use only
\* when the labels before it are
NextLabel(annotation, label) ==
    \A t \in ResolveSpeakers :
        LabelRank(t) < LabelRank(label) => \E u \in annotation : u.speaker = t

TrackUniverse ==
    {Turn(x[1], x[2][1], x[2][2]) : x \in ResolveSpeakers \X Intervals(ResolveMaxTime)}

InitResolve ==
    /\ pc = "input"
    /\ ResolveIdle
    /\ MergeIdle
    /\ AssignIdle
    /\ TranscribeIdle
    /\ ValidateIdle
    /\ PipelineIdle
    /\ DiarizeIdle
    /\ UtilsIdle

AddTrack ==
    /\ pc = "input"
    /\ overlap_regions = <<>>
    /\ Cardinality(diarization) + Len(overlap_regions) < MaxResolveRecords
    /\ \E track \in TrackUniverse \ diarization :
           /\ NextLabel(diarization, track.speaker)
           /\ diarization' = diarization \cup {track}
    /\ UNCHANGED <<diarizeVars, utilsVars, validateVars, pipelineVars, pc, overlap_regions, resolved_segments, formatted_segments,
                   mergeVars, assignVars, transcribeVars>>

AddOverlapRegion ==
    /\ pc = "input"
    /\ Cardinality(diarization) + Len(overlap_regions) < MaxResolveRecords
    /\ \E region \in Intervals(ResolveMaxTime) :
           overlap_regions' = Append(overlap_regions, region)
    /\ UNCHANGED <<diarizeVars, utilsVars, validateVars, pipelineVars, pc, diarization, resolved_segments, formatted_segments,
                   mergeVars, assignVars, transcribeVars>>

ResolveOverlaps ==
    /\ pc = "input"
    /\ resolved_segments' = resolve_overlaps(diarization, overlap_regions)
    /\ pc' = "resolved"
    /\ UNCHANGED <<diarizeVars, utilsVars, validateVars, pipelineVars, diarization, overlap_regions, formatted_segments,
                   mergeVars, assignVars, transcribeVars>>

\* diarize_audio calls format_diarization_for_whisperx when there is no overlap
\* region (or no overlap detector)
FormatDiarization ==
    /\ pc = "input"
    /\ overlap_regions = <<>>
    /\ formatted_segments' = format_diarization_for_whisperx(diarization)
    /\ pc' = "formatted"
    /\ UNCHANGED <<diarizeVars, utilsVars, validateVars, pipelineVars, diarization, overlap_regions, resolved_segments,
                   mergeVars, assignVars, transcribeVars>>

NextResolve == AddTrack \/ AddOverlapRegion \/ ResolveOverlaps \/ FormatDiarization

SpecResolve == InitResolve /\ [][NextResolve]_vars

----------------------------------------------------------------------------
(* Claims about resolve_overlaps *)

\* The extent of the speaker timeline: from its first start to its last end
Extent(annotation) ==
    <<CHOOSE a \in {t.start : t \in annotation} : \A t \in annotation : a <= t.start,
      CHOOSE b \in {t.end : t \in annotation} : \A t \in annotation : t.end <= b>>

\* The parts of the speaker timeline outside every overlap region
OutsideOverlap(annotation, regions) ==
    IF annotation = {} THEN {}
    ELSE LET parts == GapsInSegment(Timeline(RegionSet(regions)), Extent(annotation))
         IN  {parts[k] : k \in 1..Len(parts)}

\* C1: given overlap regions, every part of the speaker timeline outside all of
\* them (of 0.1 s or more) in which exactly one speaker is active comes out as a
\* segment of that speaker with is_overlap false.
C1_NonOverlapPartsEmitted ==
    (pc = "resolved" /\ overlap_regions # <<>>) =>
        \A part \in OutsideOverlap(diarization, overlap_regions) :
            LET speakers == CropLabels(diarization, part)
            IN  (Len(speakers) = 1 /\ part[2] - part[1] >= MinDuration) =>
                    \E k \in 1..Len(resolved_segments) :
                        LET seg == resolved_segments[k]
                        IN  /\ seg.speaker = speakers[1]
                            /\ ~seg.is_overlap
                            /\ Intersects(<<seg.start, seg.end>>, part)

\* The speakers with a turn that has a part of positive length in the region
ActiveIn(annotation, region) ==
    {t.speaker : t \in {u \in annotation : u.start < region[2] /\ region[1] < u.end}}

Occurrences(regions, region) ==
    Cardinality({k \in 1..Len(regions) : regions[k] = region})

\* The returned overlap segments of a speaker that span the region
OverlapOutputs(region, speaker) ==
    {k \in 1..Len(resolved_segments) :
        /\ resolved_segments[k].is_overlap
        /\ resolved_segments[k].start = region[1]
        /\ resolved_segments[k].end = region[2]
        /\ resolved_segments[k].speaker = speaker}

ElementsOf(list) == {list[k] : k \in 1..Len(list)}

\* C11: for each overlap region of 0.1 s or more, nothing is emitted if fewer
\* than two speakers have turns intersecting it, and otherwise exactly one
\* is_overlap segment per intersecting speaker (per occurrence of the region in
\* the list), whose overlap_with is the set of the other intersecting speakers.
C11_OneOverlapSegmentPerSpeaker ==
    pc = "resolved" =>
        \A region \in RegionSet(overlap_regions) :
            region[2] - region[1] >= MinDuration =>
                LET active == ActiveIn(diarization, region)
                IN  \A speaker \in ResolveSpeakers :
                        LET outs == OverlapOutputs(region, speaker)
                        IN  /\ Cardinality(outs) =
                                   IF Cardinality(active) >= 2 /\ speaker \in active
                                   THEN Occurrences(overlap_regions, region)
                                   ELSE 0
                            /\ \A k \in outs :
                                   LET with == resolved_segments[k].overlap_with
                                   IN  /\ ElementsOf(with) = active \ {speaker}
                                       /\ Len(with) = Cardinality(active) - 1

\* Three speakers in one region gave three segments, and a region with one
\* speaker gave none
C11_Witness ==
    /\ pc = "resolved"
    /\ \E region \in RegionSet(overlap_regions) :
           /\ ActiveIn(diarization, region) = ResolveSpeakers
           /\ \A speaker \in ResolveSpeakers :
                  \E k \in OverlapOutputs(region, speaker) :
                      Len(resolved_segments[k].overlap_with) = 2

\* overlap_with is non-empty exactly when is_overlap, and never holds the speaker
ConsistentOverlapFields(seg) ==
    /\ (seg.overlap_with # <<>>) <=> seg.is_overlap
    /\ seg.speaker \notin ElementsOf(seg.overlap_with)

\* C12: in every segment returned by resolve_overlaps and by
\* format_diarization_for_whisperx, overlap_with is non-empty if and only if
\* is_overlap is true, and overlap_with never contains the segment's speaker.
C12_OverlapWithIffIsOverlap ==
    /\ pc = "resolved" =>
           \A k \in 1..Len(resolved_segments) : ConsistentOverlapFields(resolved_segments[k])
    /\ pc = "formatted" =>
           \A k \in 1..Len(formatted_segments) : ConsistentOverlapFields(formatted_segments[k])

\* resolve_overlaps returned overlap segments, next to a region with one speaker
C12_Witness ==
    /\ pc = "resolved"
    /\ \E k \in 1..Len(resolved_segments) : resolved_segments[k].is_overlap
    /\ \E region \in RegionSet(overlap_regions) :
           Cardinality(ActiveIn(diarization, region)) = 1

\* C13: when a part that resolve_overlaps treats as non-overlap (every turn's
\* segment when there are no overlap regions) has more than one active speaker,
\* each of those speakers gets an is_overlap=false segment with empty
\* overlap_with over that part.
C13_EverySpeakerOfNonOverlapPartEmitted ==
    pc = "resolved" =>
        LET parts == NonOverlapTimeline(diarization, overlap_regions)
        IN  \A n \in 1..Len(parts) :
                LET part == parts[n]
                    active == ActiveIn(diarization, part)
                IN  (Cardinality(active) > 1 /\ part[2] - part[1] >= MinDuration) =>
                        \A speaker \in active :
                            \E k \in 1..Len(resolved_segments) :
                                /\ resolved_segments[k].speaker = speaker
                                /\ resolved_segments[k].start = part[1]
                                /\ resolved_segments[k].end = part[2]
                                /\ ~resolved_segments[k].is_overlap
                                /\ resolved_segments[k].overlap_with = <<>>

\* C14: the list returned by resolve_overlaps is ordered by non-decreasing
\* start, holds no segment shorter than 0.1 s, and is empty when the
\* diarization has no turns.
C14_ResolvedSortedAndLongEnough ==
    pc = "resolved" =>
        /\ \A i, j \in 1..Len(resolved_segments) :
               i < j => resolved_segments[i].start <= resolved_segments[j].start
        /\ \A k \in 1..Len(resolved_segments) :
               resolved_segments[k].end - resolved_segments[k].start >= MinDuration
        /\ diarization = {} => resolved_segments = <<>>

\* The regions were given latest first and both were resolved: the segments
\* came out in another order than they were emitted
C14_Witness ==
    /\ pc = "resolved"
    /\ Len(overlap_regions) = 2
    /\ overlap_regions[2][1] < overlap_regions[1][1]
    /\ \A n \in 1..2 :
           /\ overlap_regions[n][2] - overlap_regions[n][1] >= MinDuration
           /\ \E k \in 1..Len(resolved_segments) :
                  resolved_segments[k].start = overlap_regions[n][1]

----------------------------------------------------------------------------
(* transcribe_with_whisperx *)

\* A start or end that is not a number: None, a string that is not numeric, or
\* no such key in the dict.  Times are >= 0, so these values are below 0.
NONE_TIME == 0 - 1
TEXT_TIME == 0 - 2
MISSING_TIME == 0 - 3

\* pd.to_numeric(..., errors='coerce') gives a number and not NaN
Numeric(value) == value >= 0

\* df['speaker'].astype(str): None becomes 'None', a missing cell (NaN) 'nan'
NoneString == "None"
AsStr(speaker) ==
    IF speaker = NONE THEN NoneString
    ELSE IF speaker = MISSING THEN "nan"
    ELSE speaker

\* A required column that no row has: validate_and_fix_diarization raises
MissingColumns(diar) ==
    /\ diar # <<>>
    /\ \/ \A k \in 1..Len(diar) : diar[k].speaker = MISSING
       \/ \A k \in 1..Len(diar) : diar[k].start = MISSING_TIME
       \/ \A k \in 1..Len(diar) : diar[k].end = MISSING_TIME

\* validate_and_fix_diarization: the rows with numeric start < end, their
\* speaker as a string, sorted by start
ValidTurn(turn) == Numeric(turn.start) /\ Numeric(turn.end) /\ turn.start < turn.end
validate_and_fix_diarization(diar) ==
    LET rows == SelectSeq(diar, ValidTurn)
    IN  SortByStart([k \in 1..Len(rows) |-> [rows[k] EXCEPT !.speaker = AsStr(@)]])

\* segment.get('speaker') and segment['speaker'] != 'UNKNOWN'
Successful(label) == label \notin {MISSING, NONE, "", UNKNOWN}

RECURSIVE SuccessfulAssignments(_)
SuccessfulAssignments(labels) ==
    IF labels = <<>> THEN 0
    ELSE (IF Successful(Head(labels)) THEN 1 ELSE 0) + SuccessfulAssignments(Tail(labels))

\* success_rate < 0.5, success_rate = successful / total if total > 0 else 0
\* (LowSuccessRateInclusive: with <= instead)
LowSuccessRateInclusive(successful, total) == total = 0 \/ 2 * successful <= total
LowSuccessRate(successful, total) == total = 0 \/ 2 * successful < total

\* whisperx.assign_word_speakers sets, in place, the speaker of the segments it
\* finds one for, and of their words
ExternallyAssigned(segs, labels) ==
    [i \in 1..Len(segs) |->
        IF labels[i] = MISSING THEN segs[i]
        ELSE [segs[i] EXCEPT
                 !.speaker = labels[i],
                 !.words = [k \in 1..Len(segs[i].words) |->
                               [segs[i].words[k] EXCEPT !.speaker = labels[i]]]]]

\* Step 7: the text stripped, and a speaker that is absent, None, 'None' or ''
\* set to UNKNOWN
CleanSpeaker(speaker) ==
    IF speaker \in {MISSING, NONE, "None", ""} THEN UNKNOWN ELSE speaker

Finalized(segs) ==
    [i \in 1..Len(segs) |->
        [segs[i] EXCEPT !.text = Strip(@), !.speaker = CleanSpeaker(@)]]

\* What whisperx.align gives: segments without a speaker, some without words
AlignedUniverse ==
    {[speaker |-> MISSING, start |-> x[1][1], end |-> x[1][2],
      text |-> <<SPACE, "a">>, words |-> x[2]] :
        x \in Intervals(TranscribeMaxTime) \X {<<>>, <<Word(MISSING)>>}}

\* segments_with_words
HasWords(segment) == Len(segment.words) > 0

\* The diarization argument: turns, some of them with no duration
GivenTurnUniverse ==
    {Turn(x[1], x[2], x[3]) :
        x \in {y \in Speakers \X (0..TranscribeMaxTime) \X (0..TranscribeMaxTime) :
                   y[2] <= y[3]}}

\* The labels assign_word_speakers can leave on a segment: none, UNKNOWN, or a
\* speaker (the function is a collaborator: any labelling is allowed for)
ExternalLabels == {MISSING, UNKNOWN} \cup Speakers

----------------------------------------------------------------------------
(* Specification of transcribe_with_whisperx: the caller gives the diarization *)
(* list, then the function runs step by step                                   *)

InitTranscribe ==
    /\ pc = "input"
    /\ MergeIdle
    /\ AssignIdle
    /\ ResolveIdle
    /\ TranscribeIdle
    /\ ValidateIdle
    /\ PipelineIdle
    /\ DiarizeIdle
    /\ UtilsIdle

GiveTurn ==
    /\ pc = "input"
    /\ Len(diarization_segments) < MaxTranscribeRecords
    /\ \E turn \in GivenTurnUniverse :
           diarization_segments' = Append(diarization_segments, turn)
    /\ UNCHANGED <<diarizeVars, utilsVars, validateVars, pipelineVars, pc, transcription_segments, assigned_segments, mergeVars,
                   resolveVars, transcribeVars>>

\* Steps 1 to 3 fail (the outer except), or the transcription has no segments:
\* return {"segments": []}
TranscribeNothing ==
    /\ pc = "input"
    /\ final_result' = <<>>
    /\ pc' = "returned"
    /\ UNCHANGED <<diarizeVars, utilsVars, validateVars, pipelineVars, assignVars, mergeVars, resolveVars, external, fallback_calls>>

\* Steps 3 and 4: transcription and alignment give segments; those without
\* words are dropped; with none left, return {"segments": []}
Align ==
    /\ pc = "input"
    /\ \E aligned \in SeqsUpTo(AlignedUniverse,
                               MaxTranscribeRecords - Len(diarization_segments)) :
           /\ aligned # <<>>
           /\ transcription_segments' = SelectSeq(aligned, HasWords)
    /\ IF transcription_segments' = <<>>
       THEN pc' = "returned" /\ final_result' = <<>>
       ELSE pc' = "diarization" /\ UNCHANGED final_result
    /\ UNCHANGED <<diarizeVars, utilsVars, validateVars, pipelineVars, diarization_segments, assigned_segments, mergeVars, resolveVars,
                   external, fallback_calls>>

\* Step 5: with no diarization, or none left after validation, return
\* aligned_result as it is
CheckDiarization ==
    /\ pc = "diarization"
    /\ IF diarization_segments = <<>>
          \/ validate_and_fix_diarization(diarization_segments) = <<>>
       THEN pc' = "returned" /\ final_result' = transcription_segments
       ELSE pc' = "assign" /\ UNCHANGED final_result
    /\ UNCHANGED <<diarizeVars, utilsVars, validateVars, pipelineVars, assignVars, mergeVars, resolveVars, external, fallback_calls>>

\* Step 6: whisperx.assign_word_speakers returns, having labelled segments
ExternalAssignReturns ==
    /\ pc = "assign"
    /\ \E labels \in [1..Len(transcription_segments) -> ExternalLabels] :
           /\ external' = [outcome |-> "returned", labels |-> labels]
           /\ transcription_segments' = ExternallyAssigned(transcription_segments, labels)
    /\ pc' = "rate"
    /\ UNCHANGED <<diarizeVars, utilsVars, validateVars, pipelineVars, diarization_segments, assigned_segments, mergeVars, resolveVars,
                   fallback_calls, final_result>>

\* Step 6 raises: the except branch runs the fallback on aligned_result
ExternalAssignRaises ==
    /\ pc = "assign"
    /\ external' = [outcome |-> "raised", labels |-> <<>>]
    /\ final_result' =
           assign_speakers_manually(transcription_segments, diarization_segments)
    /\ transcription_segments' =
           [i \in 1..Len(transcription_segments) |->
               [transcription_segments[i] EXCEPT !.words = final_result'[i].words]]
    /\ fallback_calls' = fallback_calls + 1
    /\ pc' = "finalize"
    /\ UNCHANGED <<diarizeVars, utilsVars, validateVars, pipelineVars, diarization_segments, assigned_segments, mergeVars, resolveVars>>

\* The success rate of the external assignment decides: the fallback, or the
\* external labels
CheckSuccessRate ==
    /\ pc = "rate"
    /\ IF LowSuccessRate(SuccessfulAssignments(external.labels), Len(external.labels))
       THEN /\ final_result' =
                   assign_speakers_manually(transcription_segments, diarization_segments)
            /\ fallback_calls' = fallback_calls + 1
       ELSE /\ final_result' = transcription_segments
            /\ UNCHANGED fallback_calls
    /\ pc' = "finalize"
    /\ UNCHANGED <<diarizeVars, utilsVars, validateVars, pipelineVars, assignVars, mergeVars, resolveVars, external>>

\* Step 7 and the return
Finalize ==
    /\ pc = "finalize"
    /\ final_result' = Finalized(final_result)
    /\ pc' = "returned"
    /\ UNCHANGED <<diarizeVars, utilsVars, validateVars, pipelineVars, assignVars, mergeVars, resolveVars, external, fallback_calls>>

NextTranscribe ==
    \/ GiveTurn
    \/ TranscribeNothing
    \/ Align
    \/ CheckDiarization
    \/ ExternalAssignReturns
    \/ ExternalAssignRaises
    \/ CheckSuccessRate
    \/ Finalize

SpecTranscribe == InitTranscribe /\ [][NextTranscribe]_vars

----------------------------------------------------------------------------
(* Claims about transcribe_with_whisperx *)

\* The external assignment raised, or fewer than half of its segments have a
\* speaker that is not UNKNOWN
ExternalFailed ==
    \/ external.outcome = "raised"
    \/ /\ external.outcome = "returned"
       /\ 2 * SuccessfulAssignments(external.labels) < Len(external.labels)

\* The label the fallback rule gives the i-th returned segment
FallbackLabel(i) == BestSpeaker(final_result[i], diarization_segments)

C10_ReturnedSegmentsHaveSpeaker ==
    pc = "returned" =>
        \A i \in 1..Len(final_result) :
            final_result[i].speaker \notin {MISSING, NONE, ""}


----------------------------------------------------------------------------
(* validate_segments *)

ValidateMaxTime == 3      \* validation: the numeric times are 0..ValidateMaxTime
MaxValidateRecords == 2   \* validation: at most MaxValidateRecords records

\* float(value) raises TypeError (None) or ValueError (a string that is not a
\* number)
FloatRaises(value) == value \in {NONE_TIME, TEXT_TIME}

\* not seg.get('text', '').strip(); a dict without 'text' is a dict with ''
NoText(seg) == Strip(seg.text) = <<>>

\* speaker = seg.get('speaker', 'UNKNOWN'); None, 'None' and '' become 'UNKNOWN'
\* (ValidSpeakerKept: the speaker as it came)
ValidSpeakerKept(speaker) == speaker
ValidSpeaker(speaker) ==
    IF speaker = MISSING THEN UNKNOWN
    ELSE IF speaker \in {NONE, NoneString, ""} THEN UNKNOWN
    ELSE speaker

\* start_time = float(seg.get('start', 0))
StartTime(seg) == IF seg.start = MISSING_TIME THEN 0 ELSE seg.start

\* end_time = float(seg.get('end', start_time + 0.1))
EndDefaulted(seg) == seg.end = MISSING_TIME
EndTime(seg) == IF EndDefaulted(seg) THEN StartTime(seg) + MinDuration ELSE seg.end

\* (TooShortNever: without the duration check)
TooShortNever(seg, rounded_short) == FALSE
\* end_time - start_time < 0.1.  For a defaulted end this is
\* (start + 0.1) - start < 0.1 in floating point, which rounding makes true for
\* some starts (never for 0.0): rounded_short is the set of those starts.
TooShort(seg, rounded_short) ==
    IF EndDefaulted(seg) THEN StartTime(seg) \in rounded_short
    ELSE EndTime(seg) - StartTime(seg) < MinDuration

\* The starts, other than 0.0, of the records whose end is defaulted: the
\* starts for which rounding decides
DefaultedStarts(list) ==
    {StartTime(list[k]) : k \in {j \in 1..Len(list) : EndDefaulted(list[j])}} \ {0}

\* The records that reach valid_segments.append
Appended(seg, rounded_short) ==
    /\ ~NoText(seg)
    /\ ~FloatRaises(seg.start)
    /\ ~FloatRaises(seg.end)
    /\ ~TooShort(seg, rounded_short)

ValidSegment(seg) ==
    [speaker |-> ValidSpeaker(seg.speaker), start |-> StartTime(seg), end |-> EndTime(seg),
     text |-> Strip(seg.text), words |-> seg.words]

validate_segments(list, rounded_short) ==
    LET kept == SelectSeq(list, LAMBDA seg : Appended(seg, rounded_short))
    IN  [k \in 1..Len(kept) |-> ValidSegment(kept[k])]

----------------------------------------------------------------------------
(* Specification of the two validators: a list of records, then one call *)

RawTimes == (0..ValidateMaxTime) \cup {NONE_TIME, MISSING_TIME}
RawSpeakers == {MISSING, NONE, NoneString, "", "A", UNKNOWN}

\* Records of speaker A with every start and end (a string that is no number
\* as start or as end once each), records of every speaker, and records of
\* speaker B with every kind of text
RawUniverse ==
    {Segment("A", s, e, Spoken("A")) : s \in RawTimes, e \in RawTimes}
    \cup {Segment("A", TEXT_TIME, MinDuration, Spoken("A")),
          Segment("A", 0, TEXT_TIME, Spoken("A"))}
    \cup {[Segment("A", 0, MinDuration, Spoken("A")) EXCEPT !.speaker = sp] : sp \in RawSpeakers}
    \cup {Segment("B", 1, 1 + MinDuration, t) : t \in {<<>>, Blank, Spoken("B")}}

InitValidate ==
    /\ pc = "input"
    /\ raw_records \in SeqsUpTo(RawUniverse, MaxValidateRecords)
    /\ valid_segments = [raised |-> FALSE, out |-> <<>>]
    /\ diarize_df = [raised |-> FALSE, out |-> <<>>]
    /\ MergeIdle
    /\ AssignIdle
    /\ ResolveIdle
    /\ TranscribeIdle
    /\ PipelineIdle
    /\ DiarizeIdle
    /\ UtilsIdle

ValidateSegments ==
    /\ pc = "input"
    /\ \E rounded_short \in SUBSET DefaultedStarts(raw_records) :
           valid_segments' = Returned(validate_segments(raw_records, rounded_short))
    /\ pc' = "validated"
    /\ UNCHANGED <<diarizeVars, utilsVars, raw_records, diarize_df, pipelineVars, mergeVars, assignVars, resolveVars,
                   transcribeVars>>

ValidateAndFixDiarization ==
    /\ pc = "input"
    /\ diarize_df' = IF MissingColumns(raw_records) THEN Raised
                     ELSE Returned(validate_and_fix_diarization(raw_records))
    /\ pc' = "fixed"
    /\ UNCHANGED <<diarizeVars, utilsVars, raw_records, valid_segments, pipelineVars, mergeVars, assignVars, resolveVars,
                   transcribeVars>>

NextValidate == ValidateSegments \/ ValidateAndFixDiarization

SpecValidate == InitValidate /\ [][NextValidate]_vars

----------------------------------------------------------------------------
(* Claims about validate_segments and validate_and_fix_diarization *)

\* A start or end that is a number
IsNumber(value) == value \in 0..ValidateMaxTime

\* The record has both a start and an end (of whatever kind)
HasTimes(seg) == seg.start # MISSING_TIME /\ seg.end # MISSING_TIME

\* The rule for dropping: a time that is no number, start >= end, or a duration
\* below 0.1 s
MustDrop(seg) ==
    \/ ~IsNumber(seg.start)
    \/ ~IsNumber(seg.end)
    \/ seg.start >= seg.end
    \/ seg.end - seg.start < MinDuration

\* Text that holds something other than white space
HasText(seg) == \E k \in 1..Len(seg.text) : seg.text[k] # SPACE

MustKeep(seg) == ~MustDrop(seg) /\ HasText(seg)

\* The records of the input that are to survive, in input order
Survivors == SelectSeq(raw_records, MustKeep)

TimesOf(list) == [k \in 1..Len(list) |-> <<list[k].start, list[k].end>>]

\* C15: validate_segments drops every record whose start or end is no number,
\* whose start is not below its end, or whose duration is below 0.1 s, and
\* keeps every other record that has text (other than white space); every
\* surviving record has numeric start < end with end - start >= 0.1 s.
C15_ValidatedTimes ==
    pc = "validated" =>
        /\ ~valid_segments.raised
        /\ \A k \in 1..Len(valid_segments.out) :
               LET seg == valid_segments.out[k]
               IN  /\ IsNumber(seg.start)
                   /\ seg.end >= 0
                   /\ seg.start < seg.end
                   /\ seg.end - seg.start >= MinDuration
        /\ (\A k \in 1..Len(raw_records) : HasTimes(raw_records[k])) =>
               TimesOf(valid_segments.out) = TimesOf(Survivors)

\* Of two records one was dropped for its times and the other was kept
C15_Witness ==
    /\ pc = "validated"
    /\ Len(raw_records) = 2
    /\ Len(valid_segments.out) = 1
    /\ \E k \in 1..2 :
           /\ HasText(raw_records[k])
           /\ IsNumber(raw_records[k].start)
           /\ IsNumber(raw_records[k].end)
           /\ raw_records[k].end - raw_records[k].start < MinDuration

\* The speaker a record is to come out with
ExpectedSpeaker(speaker) ==
    IF speaker \in {NONE, MISSING, "", NoneString} THEN UNKNOWN ELSE speaker

\* C16: every record returned by validate_segments has a string speaker: a
\* null, missing, empty or "None" speaker comes out as UNKNOWN, and any other
\* label comes out unchanged.
C16_ValidatedSpeaker ==
    pc = "validated" =>
        /\ \A k \in 1..Len(valid_segments.out) :
               valid_segments.out[k].speaker \notin {NONE, MISSING, "", NoneString}
        /\ (\A k \in 1..Len(raw_records) : HasTimes(raw_records[k])) =>
               /\ Len(valid_segments.out) = Len(Survivors)
               /\ \A k \in 1..Len(Survivors) :
                      valid_segments.out[k].speaker = ExpectedSpeaker(Survivors[k].speaker)

\* A record without a speaker came out as UNKNOWN next to a record of A
C16_Witness ==
    /\ pc = "validated"
    /\ Len(valid_segments.out) = 2
    /\ raw_records[1].speaker = NONE
    /\ valid_segments.out[1].speaker = UNKNOWN
    /\ raw_records[2].speaker = "A"
    /\ valid_segments.out[2].speaker = "A"

C18_ValidatedTurns ==
    (pc = "fixed" /\ ~diarize_df.raised) =>
        \A k \in 1..Len(diarize_df.out) :
            LET turn == diarize_df.out[k]
            IN  /\ IsNumber(turn.start)
                /\ IsNumber(turn.end)
                /\ turn.start < turn.end
                /\ turn.end - turn.start >= MinDuration
                /\ turn.speaker \notin {"", NoneString}

----------------------------------------------------------------------------
(* Specification of merge_segments over speaker groups: segments of a real    *)
(* speaker, of the label UNKNOWN and of a null speaker, each group with a     *)
(* text of its own                                                            *)

GroupMaxTime == 2     \* merge_segments over groups: times are 0..GroupMaxTime
MaxGroupSegs == 3     \* merge_segments over groups: at most MaxGroupSegs segments

GroupSpeakers == {"A", UNKNOWN, NONE}

GroupSpoken(speaker) ==
    IF speaker = "A" THEN <<"a">>
    ELSE IF speaker = UNKNOWN THEN <<"u">>
    ELSE <<"n">>

GroupSegments ==
    {Segment(x[1], x[2][1], x[2][2], GroupSpoken(x[1])) :
        x \in GroupSpeakers \X Intervals(GroupMaxTime)}

InitMergeGroups ==
    /\ pc = "merge"
    /\ segments \in SeqsUpTo(GroupSegments, MaxGroupSegs)
    /\ merged_segments = NotCalled
    /\ remerged_segments = NotCalled
    /\ AssignIdle
    /\ ResolveIdle
    /\ TranscribeIdle
    /\ ValidateIdle
    /\ PipelineIdle
    /\ DiarizeIdle
    /\ UtilsIdle

SpecMergeGroups == InitMergeGroups /\ [][NextMerge]_vars

\* The input segments of a speaker group
GroupOf(speaker) == {i \in 1..Len(segments) : segments[i].speaker = speaker}

\* C19: every segment output by merge_segments is built only from input
\* segments of its own speaker group: its speaker is theirs, its start and end
\* are a start and an end of theirs, and its text and words hold nothing but
\* theirs; a segment of UNKNOWN or of a null speaker is never fused with one of
\* a real speaker.
C19_MergedWithinSpeakerGroup ==
    (pc = "merged" /\ ~merged_segments.raised) =>
        \A k \in 1..Len(merged_segments.out) :
            LET out == merged_segments.out[k]
                group == GroupOf(out.speaker)
            IN  /\ group # {}
                /\ \E i \in group : segments[i].start = out.start
                /\ \E i \in group : segments[i].end = out.end
                /\ \A c \in 1..Len(out.text) :
                       out.text[c] = SPACE
                       \/ \E i \in group : \E d \in 1..Len(segments[i].text) :
                              segments[i].text[d] = out.text[c]
                /\ \A w \in 1..Len(out.words) :
                       \E i \in group : \E v \in 1..Len(segments[i].words) :
                           segments[i].words[v] = out.words[w]

\* Segments of A and of UNKNOWN (or of a null speaker) that overlap in time
\* both came out, each under its own speaker
C19_Witness ==
    /\ pc = "merged"
    /\ ~merged_segments.raised
    /\ \E i, j \in 1..Len(segments) :
           /\ segments[i].speaker = "A"
           /\ segments[j].speaker \in {UNKNOWN, NONE}
           /\ segments[i].start < segments[j].end
           /\ segments[j].start < segments[i].end
           /\ \E k, l \in 1..Len(merged_segments.out) :
                  /\ merged_segments.out[k].speaker = "A"
                  /\ merged_segments.out[k].start = segments[i].start
                  /\ merged_segments.out[k].end = segments[i].end
                  /\ merged_segments.out[l].speaker = segments[j].speaker
                  /\ merged_segments.out[l].start = segments[j].start
                  /\ merged_segments.out[l].end = segments[j].end

----------------------------------------------------------------------------
(* run_pipeline: preprocess_audio, diarize_audio and transcribe_with_whisperx *)
(* are the stages whose results the run receives; validate_segments and       *)
(* merge_segments are computed                                                *)

PipelineMaxTime == 3      \* run_pipeline: times are 0..PipelineMaxTime
MaxPipelineSegs == 2      \* run_pipeline: at most MaxPipelineSegs transcribed segments

\* The stages in the order of the calls in run_pipeline
StageOrder ==
    <<"preprocess_audio", "diarize_audio", "transcribe_with_whisperx",
      "validate_segments", "merge_segments">>

\* if not success / if not diarization_segments / if not transcribed_segments /
\* if not validated_segments / if not merged_results (NoResultNever: the test
\* left out)
NoResultNever(result) == FALSE
NoResult(result) == result = <<>>

\* What preprocess_audio returns: nothing on failure, else the processed file
PreprocessResults == {<<>>, <<"processed_audio">>}

\* What diarize_audio returns: no segment, or the segment of one speaker
DiarizeResults ==
    {<<>>} \cup {<<Resolved(sp, 0, MinDuration, FALSE, <<>>)>> : sp \in Speakers}

\* What transcribe_with_whisperx returns under "segments"
PipelineSegments ==
    UNION {{Segment(x[1], x[2][1], x[2][2], t) : t \in {Blank, Spoken(x[1])}} :
        x \in Speakers \X Intervals(PipelineMaxTime)}

TranscribeResults == SeqsUpTo(PipelineSegments, MaxPipelineSegs)

\* f"{x:.2f}" of a time of t ticks of 0.05 s, as a sequence of characters
Digits == <<"0", "1", "2", "3", "4", "5", "6", "7", "8", "9">>

RECURSIVE DecimalOf(_)
DecimalOf(n) ==
    IF n < 10 THEN <<Digits[n + 1]>> ELSE Append(DecimalOf(n \div 10), Digits[(n % 10) + 1])

TwoDecimals(t) ==
    LET hundredths == 5 * t
    IN  DecimalOf(hundredths \div 100)
            \o <<".", Digits[((hundredths % 100) \div 10) + 1], Digits[(hundredths % 10) + 1]>>

\* The three exports of step 7: the part of the file name that follows the
\* base name of the input, and what is written
JsonFile(merged_results) ==
    [name |-> "_diarization.json", content |-> merged_results]

CsvFile(merged_results) ==
    [name |-> "_diarization.csv",
     content |->
         [k \in 1..Len(merged_results) |->
             <<<<merged_results[k].speaker>>, TwoDecimals(merged_results[k].start),
               TwoDecimals(merged_results[k].end), merged_results[k].text>>]]

TxtFile(merged_results) ==
    [name |-> "_diarization.txt",
     content |->
         [k \in 1..Len(merged_results) |->
             <<"[">> \o TwoDecimals(merged_results[k].start) \o <<"-">>
                 \o TwoDecimals(merged_results[k].end)
                 \o <<"]", " ", "Speaker", " ", merged_results[k].speaker, ":", " ">>
                 \o merged_results[k].text \o <<"\n">>]]

\* A stage has been called and has returned result
AfterStage(name, result, next) ==
    /\ stages_invoked' = Append(stages_invoked, name)
    /\ stage_output' = Append(stage_output, result)
    /\ pc' = IF NoResult(result) THEN "ended" ELSE next

InitPipeline ==
    /\ pc = "preprocess"
    /\ PipelineIdle
    /\ DiarizeIdle
    /\ UtilsIdle
    /\ MergeIdle
    /\ AssignIdle
    /\ ResolveIdle
    /\ TranscribeIdle
    /\ ValidateIdle

\* Step 1
Preprocess ==
    /\ pc = "preprocess"
    /\ \E result \in PreprocessResults :
           /\ AfterStage("preprocess_audio", result, "diarize")
           /\ processed_audio' = IF result = <<>> THEN processed_audio ELSE "present"
    /\ UNCHANGED <<diarizeVars, utilsVars, output_files, mergeVars, assignVars, resolveVars,
                   transcribeVars, validateVars>>

\* Step 2
Diarize ==
    /\ pc = "diarize"
    /\ \E result \in DiarizeResults : AfterStage("diarize_audio", result, "transcribe")
    /\ UNCHANGED <<diarizeVars, utilsVars, output_files, processed_audio, mergeVars, assignVars,
                   resolveVars, transcribeVars, validateVars>>

\* Steps 3 and 4
Transcribe ==
    /\ pc = "transcribe"
    /\ \E result \in TranscribeResults :
           AfterStage("transcribe_with_whisperx", result, "validate")
    /\ UNCHANGED <<diarizeVars, utilsVars, output_files, processed_audio, mergeVars, assignVars,
                   resolveVars, transcribeVars, validateVars>>

\* Step 5
Validate ==
    /\ pc = "validate"
    /\ \E rounded_short \in SUBSET DefaultedStarts(stage_output[Len(stage_output)]) :
           AfterStage("validate_segments",
                      validate_segments(stage_output[Len(stage_output)], rounded_short),
                      "merge")
    /\ UNCHANGED <<diarizeVars, utilsVars, output_files, processed_audio, mergeVars, assignVars,
                   resolveVars, transcribeVars, validateVars>>

\* Step 6: an exception of merge_segments leaves run_pipeline
Merge ==
    /\ pc = "merge"
    /\ LET merged == merge_segments(stage_output[Len(stage_output)])
       IN  IF merged.raised
           THEN /\ stages_invoked' = Append(stages_invoked, "merge_segments")
                /\ pc' = "raised"
                /\ UNCHANGED stage_output
           ELSE AfterStage("merge_segments", merged.out, "export_json")
    /\ UNCHANGED <<diarizeVars, utilsVars, output_files, processed_audio, mergeVars, assignVars,
                   resolveVars, transcribeVars, validateVars>>

\* Step 7
ExportJson ==
    /\ pc = "export_json"
    /\ output_files' = output_files \cup {JsonFile(stage_output[Len(stage_output)])}
    /\ pc' = "export_csv"
    /\ UNCHANGED <<diarizeVars, utilsVars, stages_invoked, stage_output, processed_audio,
                   mergeVars, assignVars, resolveVars, transcribeVars, validateVars>>

ExportCsv ==
    /\ pc = "export_csv"
    /\ output_files' = output_files \cup {CsvFile(stage_output[Len(stage_output)])}
    /\ pc' = "export_txt"
    /\ UNCHANGED <<diarizeVars, utilsVars, stages_invoked, stage_output, processed_audio,
                   mergeVars, assignVars, resolveVars, transcribeVars, validateVars>>

ExportTxt ==
    /\ pc = "export_txt"
    /\ output_files' = output_files \cup {TxtFile(stage_output[Len(stage_output)])}
    /\ pc' = "cleanup"
    /\ UNCHANGED <<diarizeVars, utilsVars, stages_invoked, stage_output, processed_audio,
                   mergeVars, assignVars, resolveVars, transcribeVars, validateVars>>

\* if os.path.exists(processed_audio): os.remove(processed_audio)
CleanUp ==
    /\ pc = "cleanup"
    /\ processed_audio' = "absent"
    /\ pc' = "done"
    /\ UNCHANGED <<diarizeVars, utilsVars, stages_invoked, stage_output, output_files,
                   mergeVars, assignVars, resolveVars, transcribeVars, validateVars>>

NextPipeline ==
    \/ Preprocess
    \/ Diarize
    \/ Transcribe
    \/ Validate
    \/ Merge
    \/ ExportJson
    \/ ExportCsv
    \/ ExportTxt
    \/ CleanUp

SpecPipeline == InitPipeline /\ [][NextPipeline]_vars

\* C20: in run_pipeline, when preprocessing fails or a stage yields an empty
\* result, the run ends at that stage: no later stage is invoked, no stage is
\* invoked twice, and no JSON, CSV or TXT file is written; files are written
\* only after every stage produced a non-empty result.
C20_RunEndsAtEmptyStage ==
    /\ Len(stages_invoked) <= Len(StageOrder)
    /\ \A k \in 1..Len(stages_invoked) : stages_invoked[k] = StageOrder[k]
    /\ \A k \in 1..Len(stage_output) :
           stage_output[k] = <<>> =>
               /\ k = Len(stages_invoked)
               /\ pc = "ended"
               /\ output_files = {}
    /\ output_files # {} =>
           /\ Len(stage_output) = Len(StageOrder)
           /\ \A k \in 1..Len(stage_output) : stage_output[k] # <<>>

\* Validation left nothing of a non-empty transcription and the run ended there
C20_Witness ==
    /\ pc = "ended"
    /\ Len(stages_invoked) = 4
    /\ stage_output[3] # <<>>
    /\ stage_output[4] = <<>>
    /\ output_files = {}

----------------------------------------------------------------------------
(* The effect of merge_segments and assign_speakers_manually on their arguments *)

\* C21: merge_segments and assign_speakers_manually leave their inputs
\* unchanged: the list holds the same elements in the same order after the
\* call, and every segment and every word record has the field values it had
\* before the call.
C21_InputsUnchanged ==
    [][/\ (pc = "input" /\ pc' = "assigned") =>
              /\ transcription_segments' = transcription_segments
              /\ diarization_segments' = diarization_segments
       /\ (pc = "merge" /\ pc' = "merged") => segments' = segments]_vars

\* C22: after assign_speakers_manually every word of every returned segment
\* has a speaker that is not None; a word that had a speaker keeps it and a
\* word that had none gets the label chosen for its segment.
C22_WordsGetSegmentSpeaker ==
    [][(pc = "input" /\ pc' = "assigned") =>
           \A i \in 1..Len(assigned_segments') :
               /\ Len(assigned_segments'[i].words) = Len(transcription_segments[i].words)
               /\ \A k \in 1..Len(assigned_segments'[i].words) :
                      LET before == transcription_segments[i].words[k].speaker
                          after == assigned_segments'[i].words[k].speaker
                      IN  /\ after \notin {MISSING, NONE}
                          /\ before \notin {MISSING, NONE} => after = before
                          /\ before \in {MISSING, NONE} =>
                                 after = assigned_segments'[i].speaker]_vars

\* A segment labelled A whose words without speaker became A while the word
\* of B stayed with B
C22_Witness ==
    /\ pc = "assigned"
    /\ \E i \in 1..Len(assigned_segments) :
           /\ assigned_segments[i].speaker = "A"
           /\ assigned_segments[i].words[1].speaker = "A"
           /\ assigned_segments[i].words[2].speaker = "A"
           /\ assigned_segments[i].words[3].speaker = "B"

\* C23: assign_speakers_manually returns one segment per input segment, in
\* the input's order, with the start, end and text of that input segment;
\* input and output differ in speaker fields only.
C23_OnlySpeakersDiffer ==
    [][(pc = "input" /\ pc' = "assigned") =>
           /\ Len(assigned_segments') = Len(transcription_segments)
           /\ \A i \in 1..Len(transcription_segments) :
                  LET in_seg == transcription_segments[i]
                      out_seg == assigned_segments'[i]
                  IN  /\ out_seg.start = in_seg.start
                      /\ out_seg.end = in_seg.end
                      /\ out_seg.text = in_seg.text
                      /\ Len(out_seg.words) = Len(in_seg.words)
                      /\ \A k \in 1..Len(in_seg.words) :
                             out_seg.words[k].word = in_seg.words[k].word]_vars

\* Two segments given in decreasing order of start came back in that order
C23_Witness ==
    /\ pc = "assigned"
    /\ Len(assigned_segments) = 2
    /\ assigned_segments[1].start > assigned_segments[2].start
    /\ assigned_segments[1].speaker # assigned_segments[2].speaker
    /\ assigned_segments[1].text = <<"a">>

----------------------------------------------------------------------------
(* diarize_audio and its callers in app.py and gradio_app.py *)

\* The ways through diarize_audio: HUGGINGFACE_TOKEN is not set; a pipeline
\* raises; the overlap detector does not initialize; the detector has run
DiarizePaths == {"no token", "raised", "no detector", "detected"}

\* The value of the return statement reached on a path: one list on each
diarize_audio(path, annotation, regions) ==
    CASE path = "no token" -> <<>>
      [] path = "raised" -> <<>>
      [] path = "no detector" -> format_diarization_for_whisperx(annotation)
      [] path = "detected" ->
             IF regions # <<>>
             THEN resolve_overlaps(annotation, regions)
             ELSE format_diarization_for_whisperx(annotation)

\* diarization_segments, overlap_regions = diarize_audio(...): the returned
\* list is iterated into two targets, which raises ValueError unless it has
\* two elements
Unpacked(returned) ==
    IF Len(returned) = 2
    THEN [outcome |-> "unpacked", targets |-> returned]
    ELSE [outcome |-> "ValueError", targets |-> <<>>]

InitDiarize == InitResolve

\* diarize_audio(wav_path), diarization and overlap_regions being what the
\* two pyannote pipelines produce on the audio
DiarizeAudio ==
    /\ pc = "input"
    /\ \E path \in DiarizePaths :
           final_segments' =
               [path |-> path, value |-> diarize_audio(path, diarization, overlap_regions)]
    /\ pc' = "returned"
    /\ UNCHANGED <<unpacked, utilsVars, resolveVars, mergeVars, assignVars, transcribeVars,
                   validateVars, pipelineVars>>

\* The assignment statement of the caller
UnpackReturned ==
    /\ pc = "returned"
    /\ unpacked' = Unpacked(final_segments.value)
    /\ pc' = "unpacked"
    /\ UNCHANGED <<final_segments, utilsVars, resolveVars, mergeVars, assignVars,
                   transcribeVars, validateVars, pipelineVars>>

NextDiarize == AddTrack \/ AddOverlapRegion \/ DiarizeAudio \/ UnpackReturned

SpecDiarize == InitDiarize /\ [][NextDiarize]_vars

\* C24: diarize_audio returns a pair (segments, overlap_regions) on every
\* path, so that the assignment of its result to two targets in the callers
\* succeeds; on failure, or when nothing is detected, the list concerned is
\* empty.
C24_ReturnsPair ==
    pc = "unpacked" =>
        /\ unpacked.outcome = "unpacked"
        /\ final_segments.path \in {"no token", "raised"} =>
               unpacked.targets = <<<<>>, <<>>>>

----------------------------------------------------------------------------
(* The files of run_pipeline *)

\* C25: after a run of run_pipeline that went through every stage, the output
\* directory holds <base>_transcript.json, <base>_transcript.csv and
\* <base>_transcript.txt, <base> being the input's file name without its
\* extension, and the JSON file holds the list of merged segments.
C25_TranscriptFilesWritten ==
    pc = "done" =>
        /\ {file.name : file \in output_files} =
               {"_transcript.json", "_transcript.csv", "_transcript.txt"}
        /\ [name |-> "_transcript.json", content |-> stage_output[Len(stage_output)]]
               \in output_files

\* C28: whenever run_pipeline returns after preprocessing succeeded, at the
\* end of the export or early at a stage that produced nothing, the
\* preprocessed audio file has been removed.
C28_ProcessedAudioRemoved ==
    (pc \in {"ended", "done"} /\ stage_output[1] # <<>>) => processed_audio = "absent"

----------------------------------------------------------------------------
(* utils.py: create_speaker_mapping and post_process_transcript *)

MaxListed == 2              \* most entries of unique_speakers
MaxTranscriptSegs == 2      \* most segments of a transcript
TranscriptMaxTime == 2      \* latest time of a transcript segment, in ticks

SpeakerLabels == {"SPEAKER_00", "SPEAKER_01"}

\* What the user typed for a speaker: nothing, a blank, a name, a padded name
TypedNames == {<<>>, <<SPACE>>, <<"P">>, <<SPACE, "P">>}

\* The characters of a speaker label, as text
LabelText(speaker) == <<speaker>>

\* user_name.strip() is truthy (HasNameUnstripped: without the strip)
HasNameUnstripped(user_name) == user_name # <<>>
HasName(user_name) == Strip(user_name) # <<>>

\* speaker_names.get(speaker, '')
UserName(names, speaker) == IF speaker \in DOMAIN names THEN names[speaker] ELSE <<>>

\* The dict filled by the loop over unique_speakers
create_speaker_mapping(names, speakers) ==
    [speaker \in {speakers[k] : k \in 1..Len(speakers)} |->
        IF HasName(UserName(names, speaker))
        THEN UserName(names, speaker)
        ELSE LabelText(speaker)]

InitSpeakerMapping ==
    /\ pc = "input"
    /\ UtilsIdle
    /\ DiarizeIdle
    /\ MergeIdle
    /\ AssignIdle
    /\ ResolveIdle
    /\ TranscribeIdle
    /\ ValidateIdle
    /\ PipelineIdle

\* The user types a name for a speaker label
GiveName ==
    /\ pc = "input"
    /\ \E speaker \in SpeakerLabels \ DOMAIN speaker_names, name \in TypedNames :
           speaker_names' = speaker_names @@ (speaker :> name)
    /\ UNCHANGED <<pc, unique_speakers, speaker_mapping, transcript_segments,
                   final_transcript, diarizeVars, mergeVars, assignVars, resolveVars,
                   transcribeVars, validateVars, pipelineVars>>

\* A label is put on the list of speakers
ListSpeaker ==
    /\ pc = "input"
    /\ Len(unique_speakers) < MaxListed
    /\ \E speaker \in SpeakerLabels :
           unique_speakers' = Append(unique_speakers, speaker)
    /\ UNCHANGED <<pc, speaker_names, speaker_mapping, transcript_segments,
                   final_transcript, diarizeVars, mergeVars, assignVars, resolveVars,
                   transcribeVars, validateVars, pipelineVars>>

CreateSpeakerMapping ==
    /\ pc = "input"
    /\ speaker_mapping' = create_speaker_mapping(speaker_names, unique_speakers)
    /\ pc' = "mapped"
    /\ UNCHANGED <<speaker_names, unique_speakers, transcript_segments, final_transcript,
                   diarizeVars, mergeVars, assignVars, resolveVars, transcribeVars,
                   validateVars, pipelineVars>>

NextSpeakerMapping == GiveName \/ ListSpeaker \/ CreateSpeakerMapping

SpecSpeakerMapping == InitSpeakerMapping /\ [][NextSpeakerMapping]_vars

\* A name that is not made of blanks only
NotBlank(name) == \E k \in 1..Len(name) : name[k] # SPACE

\* C26: the keys of the mapping returned by create_speaker_mapping are the
\* given unique speakers; a speaker maps to the name given for it when there
\* is one and it is not blank, and to its own label otherwise; names given for
\* speakers that are not on the list are ignored.
C26_MappingOfListedSpeakers ==
    pc = "mapped" =>
        /\ DOMAIN speaker_mapping = {unique_speakers[k] : k \in 1..Len(unique_speakers)}
        /\ \A speaker \in DOMAIN speaker_mapping :
               IF speaker \in DOMAIN speaker_names /\ NotBlank(speaker_names[speaker])
               THEN speaker_mapping[speaker] = speaker_names[speaker]
               ELSE speaker_mapping[speaker] = <<speaker>>

\* SPEAKER_00 was given a blank and maps to its label, while the name given
\* to SPEAKER_01, which is not listed, is not in the mapping
C26_Witness ==
    /\ pc = "mapped"
    /\ DOMAIN speaker_names = SpeakerLabels
    /\ speaker_names["SPEAKER_00"] = <<SPACE>>
    /\ speaker_names["SPEAKER_01"] = <<"P">>
    /\ DOMAIN speaker_mapping = {"SPEAKER_00"}
    /\ speaker_mapping["SPEAKER_00"] = <<"SPEAKER_00">>

----------------------------------------------------------------------------
(* post_process_transcript *)

NEWLINE == "\n"

\* A segment of results['segments']: the speaker is a label, None or absent
TranscriptSegments ==
    {[speaker |-> x[1], start |-> x[2][1], end |-> x[2][2],
      text |-> <<SPACE, "h", "i", SPACE>>] :
        x \in (SpeakerLabels \cup {NONE, MISSING}) \X Intervals(TranscriptMaxTime)}

\* display_name (DisplayNameLookedUp: without the test for None);
\* segment.get('speaker', 'Unknown') gives 'Unknown' where the key is absent
DisplayNameLookedUp(speaker, mapping) ==
    LET key == IF speaker = MISSING THEN "Unknown" ELSE speaker
    IN  IF key \in DOMAIN mapping THEN mapping[key] ELSE LabelText(key)
DisplayName(speaker, mapping) ==
    IF speaker = NONE THEN <<"Unknown">>
    ELSE LET key == IF speaker = MISSING THEN "Unknown" ELSE speaker
         IN  IF key \in DOMAIN mapping THEN mapping[key] ELSE LabelText(key)

\* f"[{start_time:.2f}s - {end_time:.2f}s] {display_name}: {text}"
FormattedLine(segment, mapping) ==
    <<"[">> \o TwoDecimals(segment.start) \o <<"s", SPACE, "-", SPACE>>
        \o TwoDecimals(segment.end) \o <<"s", "]", SPACE>>
        \o DisplayName(segment.speaker, mapping) \o <<":", SPACE>>
        \o Strip(segment.text)

\* "\n".join(processed_lines)
RECURSIVE JoinLines(_)
JoinLines(lines) ==
    IF lines = <<>> THEN <<>>
    ELSE IF Len(lines) = 1 THEN Head(lines)
    ELSE Head(lines) \o <<NEWLINE>> \o JoinLines(Tail(lines))

post_process_transcript(segs, mapping) ==
    IF segs = <<>> THEN <<>>
    ELSE JoinLines([k \in 1..Len(segs) |-> FormattedLine(segs[k], mapping)])

InitPostProcess == InitSpeakerMapping

\* An entry of the mapping, as create_speaker_mapping makes them: the label
\* itself or a name
MapSpeaker ==
    /\ pc = "input"
    /\ \E speaker \in SpeakerLabels \ DOMAIN speaker_mapping :
           \E name \in {<<"P">>, LabelText(speaker)} :
               speaker_mapping' = speaker_mapping @@ (speaker :> name)
    /\ UNCHANGED <<pc, speaker_names, unique_speakers, transcript_segments,
                   final_transcript, diarizeVars, mergeVars, assignVars, resolveVars,
                   transcribeVars, validateVars, pipelineVars>>

AddTranscriptSegment ==
    /\ pc = "input"
    /\ Len(transcript_segments) < MaxTranscriptSegs
    /\ \E segment \in TranscriptSegments :
           transcript_segments' = Append(transcript_segments, segment)
    /\ UNCHANGED <<pc, speaker_names, unique_speakers, speaker_mapping, final_transcript,
                   diarizeVars, mergeVars, assignVars, resolveVars, transcribeVars,
                   validateVars, pipelineVars>>

PostProcessTranscript ==
    /\ pc = "input"
    /\ final_transcript' = post_process_transcript(transcript_segments, speaker_mapping)
    /\ pc' = "processed"
    /\ UNCHANGED <<speaker_names, unique_speakers, speaker_mapping, transcript_segments,
                   diarizeVars, mergeVars, assignVars, resolveVars, transcribeVars,
                   validateVars, pipelineVars>>

NextPostProcess == MapSpeaker \/ AddTranscriptSegment \/ PostProcessTranscript

SpecPostProcess == InitPostProcess /\ [][NextPostProcess]_vars

\* The lines of a text: its parts between line ends
RECURSIVE LinesOf(_, _)
LinesOf(text, line) ==
    IF text = <<>> THEN <<line>>
    ELSE IF Head(text) = NEWLINE THEN <<line>> \o LinesOf(Tail(text), <<>>)
    ELSE LinesOf(Tail(text), Append(line, Head(text)))

\* The name a line is to show for a speaker that is given
NameToShow(speaker) ==
    IF speaker = NONE THEN <<"Unknown">>
    ELSE IF speaker \in DOMAIN speaker_mapping THEN speaker_mapping[speaker]
    ELSE <<speaker>>

\* C27: post_process_transcript returns one line per segment, in the order
\* of the segments; the line shows the mapping's value for the segment's
\* speaker, the speaker label itself when the mapping has no entry for it,
\* and "Unknown" when the speaker is None; no segment gives the empty string.
C27_OneLinePerSegment ==
    pc = "processed" =>
        IF transcript_segments = <<>> THEN final_transcript = <<>>
        ELSE LET lines == LinesOf(final_transcript, <<>>)
             IN  /\ Len(lines) = Len(transcript_segments)
                 /\ \A k \in 1..Len(lines) :
                        LET segment == transcript_segments[k]
                        IN  segment.speaker # MISSING =>
                                lines[k] =
                                    <<"[">> \o TwoDecimals(segment.start)
                                        \o <<"s", " ", "-", " ">>
                                        \o TwoDecimals(segment.end) \o <<"s", "]", " ">>
                                        \o NameToShow(segment.speaker)
                                        \o <<":", " ", "h", "i">>

\* A segment of a named speaker, then one without entry in the mapping, or
\* one of speaker None after one of a named speaker
C27_Witness ==
    /\ pc = "processed"
    /\ Len(transcript_segments) = 2
    /\ DOMAIN speaker_mapping = {"SPEAKER_00"}
    /\ speaker_mapping["SPEAKER_00"] = <<"P">>
    /\ transcript_segments[1].speaker = NONE
    /\ transcript_segments[2].speaker = "SPEAKER_00"
    /\ final_transcript =
           <<"[", "0", ".", "0", "5", "s", " ", "-", " ", "0", ".", "1", "0", "s", "]", " ",
             "Unknown", ":", " ", "h", "i", NEWLINE,
             "[", "0", ".", "0", "0", "s", " ", "-", " ", "0", ".", "0", "5", "s", "]", " ",
             "P", ":", " ", "h", "i">>

----------------------------------------------------------------------------
(* The merging of format_diarization_for_whisperx *)

\* C29: format_diarization_for_whisperx loses no speaker time when it
\* merges: a merged segment ends at the latest end of the turns merged into
\* it. So, in a diarization of one speaker, every turn of 0.1 s or more lies
\* within a returned segment, also a turn that holds the turn after it.
C29_MergedEndIsLatestEnd ==
    (pc = "formatted" /\ Cardinality({track.speaker : track \in diarization}) = 1) =>
        \A track \in diarization :
            track.end - track.start >= MinDuration =>
                \E k \in 1..Len(formatted_segments) :
                    /\ formatted_segments[k].speaker = track.speaker
                    /\ formatted_segments[k].start <= track.start
                    /\ track.end <= formatted_segments[k].end

\* C30: in the list returned by format_diarization_for_whisperx no two
\* consecutive segments have the same speaker and less than 0.1 s between
\* them, also where a segment of another speaker that was filtered out as
\* shorter than 0.1 s lay between them.
C30_NoCloseNeighboursOfOneSpeaker ==
    pc = "formatted" =>
        \A k \in 1..(Len(formatted_segments) - 1) :
            ~(/\ formatted_segments[k].speaker = formatted_segments[k + 1].speaker
              /\ formatted_segments[k + 1].start - formatted_segments[k].end < MinDuration)

====
